---- MODULE Spec2Model ----
(***************************************************************************)
(* RecipeHub backend (src/server.js, src/models/Recipe.js): the recipe     *)
(* store, the identifier allocator, the comment/rating aggregator and the  *)
(* access policy, as a state machine of concurrently running request       *)
(* handlers.  Every action is the code a handler runs between two awaits   *)
(* together with the one storage or media-host call that await waits for.  *)
(*                                                                         *)
(* Representation:                                                         *)
(*  - a JavaScript string is a sequence of one-token strings;              *)
(*  - a JavaScript value is a record [t, s, n] (type tag, string, number); *)
(*  - a rating (Number with one decimal) is kept in tenths: 3.0 is 30.     *)
(***************************************************************************)
EXTENDS Integers, Sequences, FiniteSets, TLC

(***************************************************************************)
(* Bounds of the model.                                                    *)
(***************************************************************************)
\* request handlers that can be in flight at the same time
NumProcs == 2
\* requests accepted in one behaviour
MaxRequests == 2
\* comments of the recipe in the seeded initial store
SeedLen == 19

Procs == 1..NumProcs

(***************************************************************************)
(* JavaScript values and the conversions the handlers apply to them.       *)
(***************************************************************************)
Undefined == [t |-> "undefined", s |-> <<>>, n |-> 0]
NaN == [t |-> "NaN", s |-> <<>>, n |-> 0]
Str(cs) == [t |-> "string", s |-> cs, n |-> 0]
Num(k) == [t |-> "number", s |-> <<>>, n |-> k]

\* if (x) / !x
Truthy(v) ==
  CASE v.t = "string" -> v.s # <<>>
    [] v.t = "number" -> v.n # 0
    [] OTHER -> FALSE

isNaN(v) == v.t = "NaN"

Digits == {"0", "1", "2", "3", "4", "5", "6", "7", "8", "9"}

DigitVal(c) ==
  CASE c = "0" -> 0 [] c = "1" -> 1 [] c = "2" -> 2 [] c = "3" -> 3
    [] c = "4" -> 4 [] c = "5" -> 5 [] c = "6" -> 6 [] c = "7" -> 7
    [] c = "8" -> 8 [] c = "9" -> 9

RECURSIVE TrimStart(_)
TrimStart(cs) ==
  IF cs # <<>> /\ Head(cs) = " " THEN TrimStart(Tail(cs)) ELSE cs

RECURSIVE TrimEnd(_)
TrimEnd(cs) ==
  IF cs # <<>> /\ cs[Len(cs)] = " " THEN TrimEnd(SubSeq(cs, 1, Len(cs) - 1)) ELSE cs

\* String.prototype.trim
trim(cs) == TrimEnd(TrimStart(cs))

RECURSIVE ParseDigits(_, _, _)
ParseDigits(cs, acc, seen) ==
  IF cs # <<>> /\ Head(cs) \in Digits
  THEN ParseDigits(Tail(cs), acc * 10 + DigitVal(Head(cs)), TRUE)
  ELSE [seen |-> seen, n |-> acc]

\* parseInt(v): leading blanks, an optional sign, then the longest prefix of
\* digits; what follows the digits is ignored; no digit at all gives NaN.
\* A number that is an integer is returned as it is.
parseInt(v) ==
  IF v.t = "number" THEN v
  ELSE IF v.t # "string" THEN NaN
  ELSE LET cs == TrimStart(v.s)
           signed == cs # <<>> /\ Head(cs) \in {"-", "+"}
           neg == cs # <<>> /\ Head(cs) = "-"
           r == ParseDigits(IF signed THEN Tail(cs) ELSE cs, 0, FALSE)
       IN  IF r.seen THEN Num(IF neg THEN 0 - r.n ELSE r.n) ELSE NaN

RECURSIVE SplitAcc(_, _, _, _)
SplitAcc(cs, sep, cur, out) ==
  IF cs = <<>> THEN Append(out, cur)
  ELSE IF Head(cs) = sep THEN SplitAcc(Tail(cs), sep, <<>>, Append(out, cur))
  ELSE SplitAcc(Tail(cs), sep, Append(cur, Head(cs)), out)

\* String.prototype.split(sep)
split(cs, sep) == SplitAcc(cs, sep, <<>>, <<>>)

RECURSIVE join(_, _)
\* Array.prototype.join(sep)
join(parts, sep) ==
  IF parts = <<>> THEN <<>>
  ELSE IF Len(parts) = 1 THEN parts[1]
  ELSE parts[1] \o <<sep>> \o join(Tail(parts), sep)

\* Array.prototype.slice(-2)
sliceLast2(parts) ==
  IF Len(parts) <= 2 THEN parts ELSE SubSeq(parts, Len(parts) - 1, Len(parts))

\* imageUrl.split('/').slice(-2).join('/').split('.')[0]
publicId(url) == split(join(sliceLast2(split(url, "/")), "/"), ".")[1]

\* methodSteps.split(',').map(s => s.trim())
splitSteps(cs) ==
  LET parts == split(cs, ",") IN [i \in 1..Len(parts) |-> trim(parts[i])]

(***************************************************************************)
(* JSON.parse on the texts a request can carry as ingredients.  A text is  *)
(* a token sequence; an ingredient object literal is one token.            *)
(***************************************************************************)
IngredientTokens == {"I1", "I2"}

RECURSIVE ParseElems(_, _)
\* the elements between the brackets: elem ("," elem)*
ParseElems(toks, out) ==
  IF toks = <<>> THEN [ok |-> FALSE, arr |-> <<>>]
  ELSE IF Head(toks) \notin IngredientTokens THEN [ok |-> FALSE, arr |-> <<>>]
  ELSE IF Len(toks) = 1 THEN [ok |-> TRUE, arr |-> Append(out, Head(toks))]
  ELSE IF toks[2] # "," THEN [ok |-> FALSE, arr |-> <<>>]
  ELSE ParseElems(SubSeq(toks, 3, Len(toks)), Append(out, Head(toks)))

\* [kind |-> "array" | "other" | "throw", arr |-> the array]
JSONparse(toks) ==
  IF toks = <<"[", "]">> THEN [kind |-> "array", arr |-> <<>>]
  ELSE IF Len(toks) >= 3 /\ toks[1] = "[" /\ toks[Len(toks)] = "]"
  THEN LET r == ParseElems(SubSeq(toks, 2, Len(toks) - 1), <<>>)
       IN  IF r.ok THEN [kind |-> "array", arr |-> r.arr]
           ELSE [kind |-> "throw", arr |-> <<>>]
  ELSE IF toks \in {<<"{", "}">>, <<"null">>} \/ toks \in {<<d>> : d \in Digits}
  THEN [kind |-> "other", arr |-> <<>>]
  ELSE [kind |-> "throw", arr |-> <<>>]

(***************************************************************************)
(* The aggregate rating: (totalRating / length).toFixed(1), assigned to a  *)
(* Number path.  The quotient is an IEEE double; toFixed(1) rounds the     *)
(* exact value of that double to the nearest tenth, the larger on a tie.   *)
(***************************************************************************)
RECURSIVE DivBits(_, _, _, _)
\* the binary long division rem/b, k more quotient bits to produce
DivBits(rem, b, k, last) ==
  IF k = 0 THEN [rem |-> rem, last |-> last]
  ELSE IF 2 * rem >= b THEN DivBits(2 * rem - b, b, k - 1, 1)
  ELSE DivBits(2 * rem, b, k - 1, 0)

RECURSIVE Scale(_, _)
\* n * 2^k with n * 2^k <= t < n * 2^(k+1)
Scale(t, b) == IF 2 * b <= t THEN Scale(t, 2 * b) ELSE b

\* the sign of (the double nearest to t/n) - t/n, for 1 <= n <= t:
\* 53 significant bits, round to nearest, ties to even
DoubleError(t, n) ==
  LET b == Scale(t, n)
      d == DivBits(t - b, b, 52, 1)
  IN  IF d.rem = 0 THEN 0
      ELSE IF 2 * d.rem < b THEN -1
      ELSE IF 2 * d.rem > b THEN 1
      ELSE IF d.last = 1 THEN 1 ELSE -1

\* (t / n).toFixed(1) as a Number, in tenths
toFixed1(t, n) ==
  LET q == (10 * t) \div n
      r == (10 * t) % n
  IN  IF 2 * r < n THEN q
      ELSE IF 2 * r > n THEN q + 1
      ELSE IF DoubleError(t, n) >= 0 THEN q + 1 ELSE q

RECURSIVE SumRatings(_)
\* comments.reduce((sum, c) => sum + c.rating, 0)
SumRatings(cs) == IF cs = <<>> THEN 0 ELSE Head(cs).rating + SumRatings(Tail(cs))

(***************************************************************************)
(* Identities, media references and the requests the handlers receive.     *)
(***************************************************************************)
\* the username the delete routes compare with
Admin == "maryam865"

Users == {"alice", "bob", Admin}

\* the users who create recipes in the model
Creators == {"alice"}

\* req.file.path of an upload that the media host stored in folder recipehub
Url(n) ==
  <<"https:", "/", "/", "res.cloudinary.com", "/", "demo", "/", "image", "/",
    "upload", "/", "v1", "/", "recipehub", "/", n, ".", "jpg">>

\* no file in the request, and the '' default of imageUrl
NoFile == <<>>

\* req.body and req.file of one request, and the route parameters
EmptyReq ==
  [name |-> Undefined, cuisine |-> Undefined, cookingTime |-> Undefined,
   ingredients |-> Undefined, nutritionalInfo |-> Undefined,
   methodSteps |-> Undefined, youtubeLink |-> Undefined, file |-> NoFile,
   comment |-> Undefined, rating |-> Undefined, commentIndex |-> <<>>]

ValidCreate ==
  [EmptyReq EXCEPT !.name = Str(<<"A">>), !.cuisine = Str(<<"C">>),
                   !.cookingTime = Str(<<"3", "0">>),
                   !.ingredients = Str(<<"[", "I1", ",", "I2", "]">>),
                   !.methodSteps = Str(<<"a", ",", " ", "b">>)]

\* the bodies of POST /recipes the model sends
CreateBodies ==
  { [ValidCreate EXCEPT !.file = Url("img1")],
    [ValidCreate EXCEPT !.name = Undefined],
    [ValidCreate EXCEPT !.ingredients = Str(<<"{", "}">>)],
    [ValidCreate EXCEPT !.ingredients = Str(<<"[">>)],
    [ValidCreate EXCEPT !.cookingTime = Str(<<"x">>)] }

\* the bodies of PUT /recipes/:id the model sends
UpdateBodies ==
  { [EmptyReq EXCEPT !.cookingTime = Num(0), !.name = Str(<<>>)],
    [EmptyReq EXCEPT !.name = Str(<<"B">>), !.cookingTime = Str(<<"4", "5">>),
                     !.cuisine = Str(<<"D">>), !.nutritionalInfo = Str(<<"N">>),
                     !.youtubeLink = Str(<<"Y">>)],
    [EmptyReq EXCEPT !.cookingTime = Str(<<"0">>)],
    [EmptyReq EXCEPT !.cookingTime = Str(<<"x">>)],
    [EmptyReq EXCEPT !.methodSteps = Str(<<"c", ",", "d">>),
                     !.ingredients = Str(<<"[", "]">>)],
    [EmptyReq EXCEPT !.ingredients = Str(<<"{", "}">>)],
    [EmptyReq EXCEPT !.ingredients = Str(<<"[">>)],
    [EmptyReq EXCEPT !.file = Url("img2")] }

\* the bodies of POST /recipes/:id/comment the model sends
CommentBodies ==
  { [EmptyReq EXCEPT !.comment = Str(<<"t">>), !.rating = r] :
      r \in {Undefined, Num(0), Num(1), Num(2), Num(4), Num(5), Num(6)} }
    \cup { [EmptyReq EXCEPT !.comment = Str(<<>>), !.rating = Num(4)] }

\* the users who comment in the model (the handler does not read the user)
Commenters == {"alice", "bob"}

\* the :commentIndex parameters the model sends
IndexParams == { <<"0">>, <<"1">>, <<"2", "5">>, <<"-", "1">>, <<"x">>, <<"1", "x">> }

\* the :id parameters the model sends
IdParams == { <<"1">>, <<"9">> }

(***************************************************************************)
(* Documents.                                                              *)
(***************************************************************************)
\* a Recipe document (src/models/Recipe.js); v is mongoose's version key __v
NoDoc ==
  [id |-> "", name |-> <<>>, cuisine |-> <<>>, cookingTime |-> 0,
   ingredients |-> <<>>, nutritionalInfo |-> <<>>, methodSteps |-> <<>>,
   youtubeLink |-> <<>>, imageUrl |-> <<>>, comments |-> <<>>, rating |-> 0,
   createdBy |-> "", v |-> 0]

\* the paths an update can set
UpdateFields ==
  {"name", "cuisine", "cookingTime", "ingredients", "nutritionalInfo",
   "methodSteps", "youtubeLink", "imageUrl"}

\* the cast of the Number the allocator returns to the String path id, and of
\* the Number a query gives for id
castId(v) == IF isNaN(v) THEN "NaN" ELSE ToString(v.n)

\* Recipe.findOne({ id }): the matching documents (the id index is unique)
Matching(coll, id) == { d \in coll : d.id = id }

findOne(coll, id) ==
  IF Matching(coll, id) = {} THEN [found |-> FALSE, doc |-> NoDoc]
  ELSE [found |-> TRUE, doc |-> CHOOSE d \in Matching(coll, id) : TRUE]

(***************************************************************************)
(* The identifier allocator.                                               *)
(***************************************************************************)
\* Counter.findOneAndUpdate({ name }, { $inc: { seq: inc } }, { new, upsert })
\* as ONE storage operation on the Counter collection: the first document
\* named name is incremented; without one, upsert inserts { name, seq: inc }.
\* doc is the document handed back (null: found = FALSE).
CounterFindOneAndUpdate(coll, name, inc, new, upsert) ==
  IF \E i \in 1..Len(coll) : coll[i].name = name
  THEN LET i == CHOOSE k \in 1..Len(coll) :
                  /\ coll[k].name = name
                  /\ \A j \in 1..(k - 1) : coll[j].name # name
           after == [coll EXCEPT ![i].seq = @ + inc]
       IN  [coll |-> after, found |-> TRUE,
            seq |-> IF new THEN after[i].seq ELSE coll[i].seq]
  ELSE IF upsert
  THEN [coll |-> Append(coll, [name |-> name, seq |-> inc]), found |-> new,
        seq |-> inc]
  ELSE [coll |-> coll, found |-> FALSE, seq |-> 0]

\* a slip: { new: true } without upsert
getNextRecipeIdNoUpsert(coll) ==
  LET r == CounterFindOneAndUpdate(coll, "recipeId", 1, TRUE, FALSE)
  IN  [coll |-> r.coll, threw |-> ~r.found, seq |-> r.seq]

\* a slip: { new: false }, the document as it was before the update
getNextRecipeIdOld(coll) ==
  LET r == CounterFindOneAndUpdate(coll, "recipeId", 1, FALSE, TRUE)
  IN  [coll |-> r.coll, threw |-> ~r.found, seq |-> r.seq]

\* a slip: { $inc: { seq: 0 } }
getNextRecipeIdNoInc(coll) ==
  LET r == CounterFindOneAndUpdate(coll, "recipeId", 0, TRUE, TRUE)
  IN  [coll |-> r.coll, threw |-> ~r.found, seq |-> r.seq]

\* getNextRecipeId: counter.seq of the updated document (a null counter throws)
getNextRecipeId(coll) ==
  LET r == CounterFindOneAndUpdate(coll, "recipeId", 1, TRUE, TRUE)
  IN  [coll |-> r.coll, threw |-> ~r.found, seq |-> r.seq]

(***************************************************************************)
(* State.                                                                  *)
(***************************************************************************)
VARIABLES
  counters,    \* the Counter collection: a sequence of [name, seq]
  recipes,     \* the Recipe collection: a set of documents
  proc,        \* the request handler each slot runs, with its locals
  allocated,   \* history: the values getNextRecipeId returned, in order
  inserted,    \* history: the ids of the recipes persisted, in order
  destroyed,   \* history: the publicIds the media host was asked to destroy
  nreq         \* requests accepted so far

vars == <<counters, recipes, proc, allocated, inserted, destroyed, nreq>>

\* a slot with no request; doc is the handler's in-memory document, loaded the
\* document as findOne returned it, upd the updateData of an update;
\* wrote and rel count the handler's own store writes and destroy calls
IdleProc ==
  [op |-> "none", pc |-> "idle", user |-> "", id |-> <<>>, req |-> EmptyReq,
   found |-> FALSE, loaded |-> NoDoc, doc |-> NoDoc, invalid |-> FALSE,
   upd |-> [fields |-> {}, val |-> NoDoc], status |-> 0, wrote |-> 0, rel |-> 0]

\* the store after alice created recipe 1 and SeedLen comments rated 1 were
\* added to it one after the other
SeedRecipe ==
  [NoDoc EXCEPT !.id = "1", !.name = <<"A">>, !.cuisine = <<"C">>,
                !.cookingTime = 30, !.ingredients = <<"I1", "I2">>,
                !.methodSteps = << <<"a">>, <<"b">> >>,
                !.imageUrl = Url("img1"),
                !.comments = [i \in 1..SeedLen |-> [comment |-> <<"t">>, rating |-> 1]],
                !.rating = 10, !.createdBy = "alice", !.v = SeedLen]

\* the store after alice created recipe 1 without an image and with
\* ingredients that are no array, and comments rated 4 and 2 were added to it
\* one after the other
SmallRecipe ==
  [NoDoc EXCEPT !.id = "1", !.name = <<"A">>, !.cuisine = <<"C">>,
                !.cookingTime = 30,
                !.methodSteps = << <<"a">>, <<"b">> >>,
                !.comments = << [comment |-> <<"t">>, rating |-> 4],
                                [comment |-> <<"t">>, rating |-> 2] >>,
                !.rating = 30, !.createdBy = "alice", !.v = 2]

\* the server starts on an empty database; the other initial stores are
\* stores it reaches from there by requests handled one after the other
Init ==
  /\ proc = [p \in Procs |-> IdleProc]
  /\ destroyed = <<>>
  /\ nreq = 0
  /\ \/ /\ counters = <<>>
        /\ recipes = {}
        /\ allocated = <<>>
        /\ inserted = <<>>
     \/ /\ counters = << [name |-> "recipeId", seq |-> 1] >>
        /\ recipes \in {{SeedRecipe}, {SmallRecipe}}
        /\ allocated = <<1>>
        /\ inserted = <<"1">>

\* the response of a finished handler is sent before anything else happens
\* (res.json is the end of the handler's last step)
NoResponse == \A q \in Procs : proc[q].pc # "done"

\* a request arrives and takes the first free slot
Accept(p) ==
  /\ NoResponse
  /\ proc[p].pc = "idle"
  /\ \A q \in 1..(p - 1) : proc[q].pc # "idle"
  /\ nreq < MaxRequests
  /\ nreq' = nreq + 1

\* handler p is at the await named pc
At(p, op, pc) == NoResponse /\ proc[p].op = op /\ proc[p].pc = pc

\* the handler answers with status and is over
Respond(pr, status) == [pr EXCEPT !.pc = "done", !.status = status]

(***************************************************************************)
(* POST /recipes                                                           *)
(***************************************************************************)
\* a slip: name left out of the check
RequiredMissingNoName(req) ==
  ~Truthy(req.cuisine) \/ ~Truthy(req.cookingTime) \/ ~Truthy(req.ingredients)

\* !name || !cuisine || !cookingTime || !ingredients
RequiredMissing(req) ==
  ~Truthy(req.name) \/ ~Truthy(req.cuisine) \/ ~Truthy(req.cookingTime)
    \/ ~Truthy(req.ingredients)

\* new Recipe({ ... }) of lines 191-204, id being the allocator's value
NewRecipe(req, user, seq) ==
  LET parsed == JSONparse(req.ingredients.s)
  IN  [NoDoc EXCEPT
         !.id = castId(Num(seq)),
         !.name = req.name.s,
         !.cuisine = req.cuisine.s,
         !.cookingTime = parseInt(req.cookingTime).n,
         !.ingredients = IF parsed.kind = "array" THEN parsed.arr ELSE <<>>,
         !.nutritionalInfo = IF Truthy(req.nutritionalInfo) THEN req.nutritionalInfo.s ELSE <<>>,
         !.methodSteps = IF req.methodSteps.t = "string" THEN splitSteps(req.methodSteps.s) ELSE <<>>,
         !.youtubeLink = IF Truthy(req.youtubeLink) THEN req.youtubeLink.s ELSE <<>>,
         !.imageUrl = req.file,
         !.comments = <<>>,
         !.rating = 0,
         !.createdBy = user]

\* lines 187-190: a required field is missing (400), or JSON.parse throws (500)
CreateReject(p) ==
  /\ Accept(p)
  /\ \E user \in Creators, req \in CreateBodies :
       /\ RequiredMissing(req) \/ JSONparse(req.ingredients.s).kind = "throw"
       /\ proc' = [proc EXCEPT ![p] =
            Respond([IdleProc EXCEPT !.op = "create", !.user = user, !.req = req],
                    IF RequiredMissing(req) THEN 400 ELSE 500)]
  /\ UNCHANGED <<counters, recipes, allocated, inserted, destroyed>>

\* lines 187-204: the body passes, getNextRecipeId runs, the document is built
CreateAlloc(p) ==
  /\ Accept(p)
  /\ \E user \in Creators, req \in CreateBodies :
       /\ ~RequiredMissing(req)
       /\ JSONparse(req.ingredients.s).kind # "throw"
       /\ LET r == getNextRecipeId(counters)
              pr == [IdleProc EXCEPT !.op = "create", !.user = user, !.req = req]
          IN  /\ counters' = r.coll
              /\ IF r.threw
                 THEN /\ proc' = [proc EXCEPT ![p] = Respond(pr, 500)]
                      /\ allocated' = allocated
                 ELSE /\ proc' = [proc EXCEPT ![p] =
                           [pr EXCEPT !.pc = "save",
                                      !.doc = NewRecipe(req, user, r.seq),
                                      !.invalid = isNaN(parseInt(req.cookingTime))]]
                      /\ allocated' = Append(allocated, r.seq)
  /\ UNCHANGED <<recipes, inserted, destroyed>>

\* line 205, newRecipe.save(): validation (a NaN cookingTime does not cast),
\* then the insert, which the unique index on id refuses for a taken id
CreateSave(p) ==
  /\ At(p, "create", "save")
  /\ IF proc[p].invalid \/ Matching(recipes, proc[p].doc.id) # {}
     THEN /\ proc' = [proc EXCEPT ![p] = Respond(@, 500)]
          /\ UNCHANGED <<recipes, inserted>>
     ELSE /\ recipes' = recipes \cup {proc[p].doc}
          /\ inserted' = Append(inserted, proc[p].doc.id)
          /\ proc' = [proc EXCEPT ![p] = Respond([@ EXCEPT !.wrote = @ + 1], 201)]
  /\ UNCHANGED <<counters, allocated, destroyed, nreq>>

(***************************************************************************)
(* The media host.                                                         *)
(***************************************************************************)
\* await cloudinary.uploader.destroy(publicId) of the document the handler
\* loaded: the host takes the call, or the call fails and the handler's catch
\* answers 500
Destroy(p, nextpc) ==
  \/ /\ destroyed' = Append(destroyed, publicId(proc[p].loaded.imageUrl))
     /\ proc' = [proc EXCEPT ![p] = [@ EXCEPT !.pc = nextpc, !.rel = @ + 1]]
  \/ /\ destroyed' = destroyed
     /\ proc' = [proc EXCEPT ![p] = Respond(@, 500)]

(***************************************************************************)
(* PUT /recipes/:id                                                        *)
(***************************************************************************)
\* a slip: the admin may edit too
canEditOrAdmin(user, doc) == user = doc.createdBy \/ user = Admin

\* line 221: only the creator may edit
canEdit(user, doc) == user = doc.createdBy

\* a slip: if (x !== undefined) instead of if (x)
UpdateDataFieldsDefined(req) ==
  { f \in UpdateFields \ {"imageUrl"} : req[f].t # "undefined" }
    \cup (IF req.file # NoFile THEN {"imageUrl"} ELSE {})

\* lines 225-251: the paths the handler puts into updateData
UpdateDataFields(req) ==
  { f \in UpdateFields \ {"imageUrl"} : Truthy(req[f]) }
    \cup (IF req.file # NoFile THEN {"imageUrl"} ELSE {})

\* lines 225-251: the values it puts there
UpdateDataValues(req) ==
  [NoDoc EXCEPT
     !.name = req.name.s,
     !.cuisine = req.cuisine.s,
     !.cookingTime = parseInt(req.cookingTime).n,
     !.ingredients = JSONparse(req.ingredients.s).arr,
     !.nutritionalInfo = req.nutritionalInfo.s,
     !.methodSteps = IF req.methodSteps.t = "string" THEN splitSteps(req.methodSteps.s) ELSE <<>>,
     !.youtubeLink = req.youtubeLink.s,
     !.imageUrl = req.file]

\* a slip: updateData replaces the document ({ overwrite: true })
ApplyUpdateReplace(doc, upd) ==
  [f \in DOMAIN doc |-> IF f \in upd.fields THEN upd.val[f] ELSE NoDoc[f]]

\* the $set of updateData on a document
ApplyUpdate(doc, upd) ==
  [f \in DOMAIN doc |-> IF f \in upd.fields THEN upd.val[f] ELSE doc[f]]

\* lines 215-251 up to the first await after findOne
UpdateFind(p) ==
  /\ Accept(p)
  /\ \E user \in Users, id \in IdParams, req \in UpdateBodies :
       LET r == findOne(recipes, castId(parseInt(Str(id))))
           pr == [IdleProc EXCEPT !.op = "update", !.user = user, !.id = id,
                                  !.req = req, !.found = r.found, !.loaded = r.doc]
           parsed == JSONparse(req.ingredients.s)
       IN  proc' = [proc EXCEPT ![p] =
             IF ~r.found THEN Respond(pr, 404)
             ELSE IF ~canEdit(user, r.doc) THEN Respond(pr, 403)
             ELSE IF Truthy(req.ingredients) /\ parsed.kind = "throw" THEN Respond(pr, 500)
             ELSE IF Truthy(req.ingredients) /\ parsed.kind # "array" THEN Respond(pr, 400)
             ELSE [pr EXCEPT
                     !.upd = [fields |-> UpdateDataFields(req), val |-> UpdateDataValues(req)],
                     !.invalid = Truthy(req.cookingTime) /\ isNaN(parseInt(req.cookingTime)),
                     !.pc = IF req.file # NoFile /\ r.doc.imageUrl # <<>>
                            THEN "destroy" ELSE "write"]]
  /\ UNCHANGED <<counters, recipes, allocated, inserted, destroyed>>

\* line 247
UpdateDestroy(p) ==
  /\ At(p, "update", "destroy")
  /\ Destroy(p, "write")
  /\ UNCHANGED <<counters, recipes, allocated, inserted, nreq>>

\* a slip: { new: true, upsert: true }, which inserts { id, ...updateData }
\* when no document has the id
UpdateWriteUpsert(p) ==
  /\ At(p, "update", "write")
  /\ LET id == castId(parseInt(Str(proc[p].id)))
         r == findOne(recipes, id)
         base == IF r.found THEN r.doc ELSE [NoDoc EXCEPT !.id = id]
     IN  IF proc[p].invalid
         THEN /\ proc' = [proc EXCEPT ![p] = Respond(@, 500)]
              /\ recipes' = recipes
         ELSE /\ recipes' = (recipes \ {r.doc}) \cup {ApplyUpdate(base, proc[p].upd)}
              /\ proc' = [proc EXCEPT ![p] = Respond([@ EXCEPT !.wrote = @ + 1], 200)]
  /\ UNCHANGED <<counters, allocated, inserted, destroyed, nreq>>

\* lines 253-260, Recipe.findOneAndUpdate({ id }, updateData, { new: true }):
\* a NaN cookingTime does not cast (500); no document with the id gives 404
UpdateWrite(p) ==
  /\ At(p, "update", "write")
  /\ LET r == findOne(recipes, castId(parseInt(Str(proc[p].id))))
     IN  IF proc[p].invalid
         THEN /\ proc' = [proc EXCEPT ![p] = Respond(@, 500)]
              /\ recipes' = recipes
         ELSE IF ~r.found
         THEN /\ proc' = [proc EXCEPT ![p] = Respond(@, 404)]
              /\ recipes' = recipes
         ELSE /\ recipes' = (recipes \ {r.doc}) \cup {ApplyUpdate(r.doc, proc[p].upd)}
              /\ proc' = [proc EXCEPT ![p] = Respond([@ EXCEPT !.wrote = @ + 1], 200)]
  /\ UNCHANGED <<counters, allocated, inserted, destroyed, nreq>>

(***************************************************************************)
(* DELETE /recipes/:id                                                     *)
(***************************************************************************)
\* a slip: === for !== in the second comparison
canDeleteNegated(user, doc) == user = Admin \/ user # doc.createdBy

\* line 274: the admin or the creator may delete
canDelete(user, doc) == user = Admin \/ user = doc.createdBy

\* a slip: deleteOne moved in front of the image release
DeleteFindRemoveFirst(p) ==
  /\ Accept(p)
  /\ \E user \in Users, id \in IdParams :
       LET r == findOne(recipes, castId(parseInt(Str(id))))
           pr == [IdleProc EXCEPT !.op = "delete", !.user = user, !.id = id,
                                  !.found = r.found, !.loaded = r.doc]
       IN  proc' = [proc EXCEPT ![p] =
             IF ~r.found THEN Respond(pr, 404)
             ELSE IF ~canDelete(user, r.doc) THEN Respond(pr, 403)
             ELSE [pr EXCEPT !.pc = "remove"]]
  /\ UNCHANGED <<counters, recipes, allocated, inserted, destroyed>>

\* lines 270-279
DeleteFind(p) ==
  /\ Accept(p)
  /\ \E user \in Users, id \in IdParams :
       LET r == findOne(recipes, castId(parseInt(Str(id))))
           pr == [IdleProc EXCEPT !.op = "delete", !.user = user, !.id = id,
                                  !.found = r.found, !.loaded = r.doc]
       IN  proc' = [proc EXCEPT ![p] =
             IF ~r.found THEN Respond(pr, 404)
             ELSE IF ~canDelete(user, r.doc) THEN Respond(pr, 403)
             ELSE [pr EXCEPT !.pc = IF r.doc.imageUrl # <<>> THEN "destroy" ELSE "remove"]]
  /\ UNCHANGED <<counters, recipes, allocated, inserted, destroyed>>

\* line 281
DeleteDestroy(p) ==
  /\ At(p, "delete", "destroy")
  /\ Destroy(p, "remove")
  /\ UNCHANGED <<counters, recipes, allocated, inserted, nreq>>

\* lines 285-286, Recipe.deleteOne({ id })
DeleteOne(p) ==
  /\ At(p, "delete", "remove")
  /\ recipes' = recipes \ Matching(recipes, castId(parseInt(Str(proc[p].id))))
  /\ proc' = [proc EXCEPT ![p] = Respond([@ EXCEPT !.wrote = @ + 1], 200)]
  /\ UNCHANGED <<counters, allocated, inserted, destroyed, nreq>>

(***************************************************************************)
(* POST /recipes/:id/comment                                               *)
(***************************************************************************)
\* a slip: rating >= 5
CommentInvalidOffByOne(req) ==
  ~Truthy(req.comment) \/ ~Truthy(req.rating) \/ req.rating.n < 1 \/ req.rating.n >= 5

\* line 297: !comment || !rating || rating < 1 || rating > 5, for a rating
\* that is a number or absent
CommentInvalid(req) ==
  ~Truthy(req.comment) \/ ~Truthy(req.rating) \/ req.rating.n < 1 \/ req.rating.n > 5

\* lines 304-305 and 333-338: the rating of a comment list, in tenths
Recompute(comments) == toFixed1(SumRatings(comments), Len(comments))

\* line 303: the subdocument the schema keeps of { comment, rating, user }
NewComment(req) == [comment |-> req.comment.s, rating |-> parseInt(req.rating).n]

\* lines 295-299
AddReject(p) ==
  /\ Accept(p)
  /\ \E user \in Commenters, id \in IdParams, req \in CommentBodies :
       /\ CommentInvalid(req)
       /\ proc' = [proc EXCEPT ![p] =
            Respond([IdleProc EXCEPT !.op = "addComment", !.user = user, !.id = id,
                                     !.req = req], 400)]
  /\ UNCHANGED <<counters, recipes, allocated, inserted, destroyed>>

\* lines 300-305: findOne, then push and recompute on the in-memory document
AddFind(p) ==
  /\ Accept(p)
  /\ \E user \in Commenters, id \in IdParams, req \in CommentBodies :
       /\ ~CommentInvalid(req)
       /\ LET r == findOne(recipes, castId(parseInt(Str(id))))
              pr == [IdleProc EXCEPT !.op = "addComment", !.user = user, !.id = id,
                                     !.req = req, !.found = r.found, !.loaded = r.doc]
              pushed == Append(r.doc.comments, NewComment(req))
          IN  proc' = [proc EXCEPT ![p] =
                IF ~r.found THEN Respond(pr, 404)
                ELSE [pr EXCEPT !.pc = "save",
                                !.doc = [r.doc EXCEPT !.comments = pushed,
                                                      !.rating = Recompute(pushed)]]]
  /\ UNCHANGED <<counters, recipes, allocated, inserted, destroyed>>

\* a slip: recipe.comments = [...recipe.comments, c] for push, which makes
\* save send { $set: { comments: the whole in-memory array, rating } }
AddSaveSet(p) ==
  /\ At(p, "addComment", "save")
  /\ LET r == findOne(recipes, proc[p].loaded.id)
     IN  IF ~r.found
         THEN /\ proc' = [proc EXCEPT ![p] = Respond(@, 500)]
              /\ recipes' = recipes
         ELSE /\ recipes' = (recipes \ {r.doc}) \cup
                   {[r.doc EXCEPT !.comments = proc[p].doc.comments,
                                  !.rating = proc[p].doc.rating]}
              /\ proc' = [proc EXCEPT ![p] = Respond([@ EXCEPT !.wrote = @ + 1], 200)]
  /\ UNCHANGED <<counters, allocated, inserted, destroyed, nreq>>

\* line 307, recipe.save() after a push: mongoose sends
\* { $push: { comments }, $set: { rating } (when it changed), $inc: { __v } }
\* for the document, without a condition on __v; a document that is gone
\* makes save throw
AddSave(p) ==
  /\ At(p, "addComment", "save")
  /\ LET r == findOne(recipes, proc[p].loaded.id)
         pushed == proc[p].doc.comments[Len(proc[p].doc.comments)]
     IN  IF ~r.found
         THEN /\ proc' = [proc EXCEPT ![p] = Respond(@, 500)]
              /\ recipes' = recipes
         ELSE /\ recipes' = (recipes \ {r.doc}) \cup
                   {[r.doc EXCEPT
                       !.comments = Append(@, pushed),
                       !.rating = IF proc[p].doc.rating # proc[p].loaded.rating
                                  THEN proc[p].doc.rating ELSE @,
                       !.v = @ + 1]}
              /\ proc' = [proc EXCEPT ![p] = Respond([@ EXCEPT !.wrote = @ + 1], 200)]
  /\ UNCHANGED <<counters, allocated, inserted, destroyed, nreq>>

(***************************************************************************)
(* DELETE /recipes/:id/comments/:commentIndex                              *)
(***************************************************************************)
\* a slip: !== for === in the comparison
canDeleteCommentNegated(user) == user # Admin

\* line 319: only the admin may delete comments
canDeleteComment(user) == user = Admin

\* line 327: isNaN(commentIndex) || commentIndex < 0 || commentIndex >= length
IndexInvalid(idx, comments) == isNaN(idx) \/ idx.n < 0 \/ idx.n >= Len(comments)

\* line 331, comments.splice(i, 1), i counted from 0
splice1(comments, i) ==
  SubSeq(comments, 1, i) \o SubSeq(comments, i + 2, Len(comments))

\* lines 318-321
DeleteCommentForbid(p) ==
  /\ Accept(p)
  /\ \E user \in Users, id \in IdParams, ix \in IndexParams :
       /\ ~canDeleteComment(user)
       /\ proc' = [proc EXCEPT ![p] =
            Respond([IdleProc EXCEPT !.op = "deleteComment", !.user = user, !.id = id,
                                     !.req = [EmptyReq EXCEPT !.commentIndex = ix]], 403)]
  /\ UNCHANGED <<counters, recipes, allocated, inserted, destroyed>>

\* a slip: the index check moved in front of the !recipe check, reading
\* recipe?.comments.length (no comments for no recipe)
DeleteCommentFindIndexFirst(p) ==
  /\ Accept(p)
  /\ \E user \in Users, id \in IdParams, ix \in IndexParams :
       /\ canDeleteComment(user)
       /\ LET r == findOne(recipes, castId(parseInt(Str(id))))
              pr == [IdleProc EXCEPT !.op = "deleteComment", !.user = user, !.id = id,
                                     !.req = [EmptyReq EXCEPT !.commentIndex = ix],
                                     !.found = r.found, !.loaded = r.doc]
              idx == parseInt(Str(ix))
              rest == splice1(r.doc.comments, idx.n)
          IN  proc' = [proc EXCEPT ![p] =
                IF IndexInvalid(idx, r.doc.comments) THEN Respond(pr, 400)
                ELSE IF ~r.found THEN Respond(pr, 404)
                ELSE [pr EXCEPT !.pc = "save",
                                !.doc = [r.doc EXCEPT
                                           !.comments = rest,
                                           !.rating = IF Len(rest) > 0 THEN Recompute(rest)
                                                      ELSE 0]]]
  /\ UNCHANGED <<counters, recipes, allocated, inserted, destroyed>>

\* lines 323-338: findOne, the index check, splice and recompute in memory
DeleteCommentFind(p) ==
  /\ Accept(p)
  /\ \E user \in Users, id \in IdParams, ix \in IndexParams :
       /\ canDeleteComment(user)
       /\ LET r == findOne(recipes, castId(parseInt(Str(id))))
              pr == [IdleProc EXCEPT !.op = "deleteComment", !.user = user, !.id = id,
                                     !.req = [EmptyReq EXCEPT !.commentIndex = ix],
                                     !.found = r.found, !.loaded = r.doc]
              idx == parseInt(Str(ix))
              rest == splice1(r.doc.comments, idx.n)
          IN  proc' = [proc EXCEPT ![p] =
                IF ~r.found THEN Respond(pr, 404)
                ELSE IF IndexInvalid(idx, r.doc.comments) THEN Respond(pr, 400)
                ELSE [pr EXCEPT !.pc = "save",
                                !.doc = [r.doc EXCEPT
                                           !.comments = rest,
                                           !.rating = IF Len(rest) > 0 THEN Recompute(rest)
                                                      ELSE 0]]]
  /\ UNCHANGED <<counters, recipes, allocated, inserted, destroyed>>

\* line 340, recipe.save() after a splice: mongoose sends
\* { $set: { comments: the whole array, rating (when it changed) }, $inc: { __v } }
\* on condition that __v is still the loaded one; no match makes save throw
DeleteCommentSave(p) ==
  /\ At(p, "deleteComment", "save")
  /\ LET r == findOne(recipes, proc[p].loaded.id)
     IN  IF ~r.found \/ r.doc.v # proc[p].loaded.v
         THEN /\ proc' = [proc EXCEPT ![p] = Respond(@, 500)]
              /\ recipes' = recipes
         ELSE /\ recipes' = (recipes \ {r.doc}) \cup
                   {[r.doc EXCEPT
                       !.comments = proc[p].doc.comments,
                       !.rating = IF proc[p].doc.rating # proc[p].loaded.rating
                                  THEN proc[p].doc.rating ELSE @,
                       !.v = @ + 1]}
              /\ proc' = [proc EXCEPT ![p] = Respond([@ EXCEPT !.wrote = @ + 1], 200)]
  /\ UNCHANGED <<counters, allocated, inserted, destroyed, nreq>>

\* the response is sent; the slot is free again
Finish(p) ==
  /\ proc[p].pc = "done"
  /\ proc' = [proc EXCEPT ![p] = IdleProc]
  /\ UNCHANGED <<counters, recipes, allocated, inserted, destroyed, nreq>>

Step(p) ==
    \/ CreateReject(p)
    \/ CreateAlloc(p)
    \/ CreateSave(p)
    \/ UpdateFind(p)
    \/ UpdateDestroy(p)
    \/ UpdateWrite(p)
    \/ DeleteFind(p)
    \/ DeleteDestroy(p)
    \/ DeleteOne(p)
    \/ AddReject(p)
    \/ AddFind(p)
    \/ AddSave(p)
    \/ DeleteCommentForbid(p)
    \/ DeleteCommentFind(p)
    \/ DeleteCommentSave(p)
    \/ Finish(p)

Next == \E p \in Procs : Step(p)

Spec == Init /\ [][Next]_vars

\* no other handler is running
Alone(p) == \A q \in Procs \ {p} : proc[q].pc = "idle"

\* one request at a time: each handler runs from its request to its response
\* with no other handler in between
SeqNext ==
  \E p \in Procs :
    \/ Alone(p) /\ CreateReject(p)
    \/ Alone(p) /\ CreateAlloc(p)
    \/ Alone(p) /\ CreateSave(p)
    \/ Alone(p) /\ UpdateFind(p)
    \/ Alone(p) /\ UpdateDestroy(p)
    \/ Alone(p) /\ UpdateWrite(p)
    \/ Alone(p) /\ DeleteFind(p)
    \/ Alone(p) /\ DeleteDestroy(p)
    \/ Alone(p) /\ DeleteOne(p)
    \/ Alone(p) /\ AddReject(p)
    \/ Alone(p) /\ AddFind(p)
    \/ Alone(p) /\ AddSave(p)
    \/ Alone(p) /\ DeleteCommentForbid(p)
    \/ Alone(p) /\ DeleteCommentFind(p)
    \/ Alone(p) /\ DeleteCommentSave(p)
    \/ Alone(p) /\ Finish(p)

SeqSpec == Init /\ [][SeqNext]_vars

(***************************************************************************)
(* The claims.                                                             *)
(***************************************************************************)
\* handler p runs operation op and has got past its request's arrival
Running(p, op) == proc[p].op = op /\ proc[p].pc # "idle"

\* handler p has called getNextRecipeId (CreateAlloc took its request)
CalledAllocator(p) ==
  /\ Running(p, "create")
  /\ ~RequiredMissing(proc[p].req)
  /\ JSONparse(proc[p].req.ingredients.s).kind # "throw"

\* C1: the values that getNextRecipeId has returned, to handlers running in
\* any interleaving, are pairwise distinct.
C1_DistinctIds ==
  \A i, j \in 1..Len(allocated) : i # j => allocated[i] # allocated[j]

\* C1 witness: two create handlers are in flight together, each holding the
\* id its call returned.
C1_Witness ==
  \E p, q \in Procs :
    /\ p # q
    /\ proc[p].op = "create" /\ proc[p].pc = "save"
    /\ proc[q].op = "create" /\ proc[q].pc = "save"

\* the mean of the ratings rounded to one decimal place (half up), in tenths
RoundedMean(comments) ==
  (20 * SumRatings(comments) + Len(comments)) \div (2 * Len(comments))

\* C2: with the requests handled one after the other, every stored recipe's
\* rating is the mean of its comments' ratings rounded to one decimal place,
\* and 0 when it has no comment.
C2_RatingIsRoundedMean ==
  \A d \in recipes :
    d.rating = IF d.comments = <<>> THEN 0 ELSE RoundedMean(d.comments)

\* no handler is between its findOne and its save
Quiescent == \A p \in Procs : proc[p].pc \in {"idle", "done"}

\* C3: comment mutations of one recipe running concurrently lose no update:
\* once they have all answered, the stored rating is the one the handlers
\* compute from the stored comments (0 for none).
C3_NoLostUpdate ==
  Quiescent =>
    \A d \in recipes :
      d.rating = IF d.comments = <<>> THEN 0 ELSE Recompute(d.comments)

\* C4: stored ids are pairwise distinct, the allocator's values increase
\* strictly in allocation order, and no id is given to two recipes, also
\* after a recipe was deleted or a create failed to persist.
C4_IdsUniqueIncreasing ==
  /\ \A d, e \in recipes : d.id = e.id => d = e
  /\ \A i, j \in 1..Len(allocated) : i < j => allocated[i] < allocated[j]
  /\ \A i, j \in 1..Len(inserted) : i # j => inserted[i] # inserted[j]
  /\ \A d \in recipes : \E i \in 1..Len(inserted) : inserted[i] = d.id

\* C4 witness: a recipe was persisted and deleted, and a recipe created after
\* it is stored.
C4_Witness ==
  /\ Len(inserted) >= 2
  /\ Matching(recipes, inserted[1]) = {}
  /\ Matching(recipes, inserted[Len(inserted)]) # {}

\* C5: the first call creates the counter record and returns 1; calls, also
\* concurrent first calls, leave exactly one counter record and return 1, 2, ...
C5_CounterCreatedOnce ==
  /\ Len(counters) <= 1
  /\ \A i \in 1..Len(allocated) : allocated[i] = i
  /\ \A p \in Procs :
       CalledAllocator(p) =>
         /\ Len(counters) = 1
         /\ proc[p].doc.id # ""
         /\ counters[1].seq = Len(allocated)

\* C5 witness: starting without a counter record, two create handlers in
\* flight together hold the ids 1 and 2.
C5_Witness ==
  /\ allocated = <<1, 2>>
  /\ inserted = <<>>
  /\ Len(counters) = 1
  /\ \E p, q \in Procs :
       /\ proc[p].pc = "save" /\ proc[p].doc.id = "1"
       /\ proc[q].pc = "save" /\ proc[q].doc.id = "2"

\* the text of a number: an optional minus sign and digits, nothing else
IsNumberText(cs) ==
  LET body == IF cs # <<>> /\ Head(cs) = "-" THEN Tail(cs) ELSE cs
  IN  body # <<>> /\ \A k \in 1..Len(body) : body[k] \in Digits

\* C6: deleteComment by the admin on an existing recipe: an index that is not
\* a number or not in [0, len) is answered 400 with nothing written; an index
\* in range removes exactly the comment at that position, later comments
\* moving down by one and the order of the others kept.
C6_DeleteCommentIndex ==
  \A p \in Procs :
    (Running(p, "deleteComment") /\ proc[p].user = Admin /\ proc[p].found) =>
      LET raw == proc[p].req.commentIndex
          old == proc[p].loaded.comments
          i == parseInt(Str(raw)).n
          new == proc[p].doc.comments
      IN  IF IsNumberText(raw) /\ 0 <= i /\ i < Len(old)
          THEN /\ Len(new) = Len(old) - 1
               /\ \A j \in 1..i : new[j] = old[j]
               /\ \A j \in (i + 1)..Len(new) : new[j] = old[j + 1]
          ELSE proc[p].pc = "done" /\ proc[p].status = 400 /\ proc[p].wrote = 0

\* the recipe a handler's :id names is stored
Stored(p) == Matching(recipes, castId(parseInt(Str(proc[p].id)))) # {}

\* C7: addComment with an empty text or a rating outside [1,5] is answered
\* 400 with nothing written; with a text and a rating of 1..5 on an existing
\* recipe it is accepted: it is saved (200), unless the recipe was deleted
\* before the save.
C7_AddCommentValidation ==
  \A p \in Procs :
    Running(p, "addComment") =>
      LET req == proc[p].req
          inRange == req.rating.t = "number" /\ req.rating.n \in 1..5
      IN  IF req.comment.s = <<>> \/ ~inRange
          THEN proc[p].pc = "done" /\ proc[p].status = 400 /\ proc[p].wrote = 0
          ELSE /\ proc[p].status # 400
               /\ proc[p].found =>
                    \/ proc[p].pc = "save"
                    \/ proc[p].pc = "done" /\ proc[p].status = 200 /\ proc[p].wrote = 1
                    \/ proc[p].pc = "done" /\ proc[p].status = 500 /\ ~Stored(p)
               /\ ~proc[p].found => proc[p].pc = "done" /\ proc[p].status = 404

\* C7 witness: a comment rated 6 on an existing recipe was answered 400.
C7_Witness ==
  \E p \in Procs :
    /\ Running(p, "addComment") /\ proc[p].status = 400
    /\ proc[p].req.rating = Num(6) /\ proc[p].req.comment.s # <<>>
    /\ Stored(p)

\* C8: an update of an existing recipe by anyone but its creator, the admin
\* included, is answered 403; the handler writes nothing and releases no media.
C8_UpdateForbidden ==
  \A p \in Procs :
    (Running(p, "update") /\ proc[p].found /\ proc[p].user # proc[p].loaded.createdBy) =>
      /\ proc[p].pc = "done" /\ proc[p].status = 403
      /\ proc[p].wrote = 0 /\ proc[p].rel = 0

\* C8 witness: the admin's update of alice's recipe, carrying a new image,
\* was answered 403.
C8_Witness ==
  \E p \in Procs :
    /\ Running(p, "update") /\ proc[p].found /\ proc[p].status = 403
    /\ proc[p].user = Admin /\ proc[p].loaded.createdBy = "alice"
    /\ proc[p].req.file # NoFile /\ proc[p].loaded.imageUrl # <<>>

\* C9: the write of a successful update gives every field that is truthy in
\* the request the supplied value and leaves every other field, and every
\* other recipe, as stored before the write.
C9_UpdateFrameStep ==
  \A p \in Procs :
    (proc[p].op = "update" /\ proc[p].pc = "write" /\ proc'[p].pc = "done"
       /\ proc'[p].status = 200) =>
      LET id == castId(parseInt(Str(proc[p].id)))
          before == findOne(recipes, id).doc
          after == findOne(recipes', id).doc
          req == proc[p].req
      IN  /\ findOne(recipes, id).found /\ findOne(recipes', id).found
          /\ recipes' \ {after} = recipes \ {before}
          /\ after.name = IF Truthy(req.name) THEN req.name.s ELSE before.name
          /\ after.cuisine = IF Truthy(req.cuisine) THEN req.cuisine.s ELSE before.cuisine
          /\ after.cookingTime = IF Truthy(req.cookingTime)
                                 THEN parseInt(req.cookingTime).n ELSE before.cookingTime
          /\ after.ingredients = IF Truthy(req.ingredients)
                                 THEN JSONparse(req.ingredients.s).arr ELSE before.ingredients
          /\ after.nutritionalInfo = IF Truthy(req.nutritionalInfo)
                                     THEN req.nutritionalInfo.s ELSE before.nutritionalInfo
          /\ after.methodSteps = IF Truthy(req.methodSteps)
                                 THEN splitSteps(req.methodSteps.s) ELSE before.methodSteps
          /\ after.youtubeLink = IF Truthy(req.youtubeLink)
                                 THEN req.youtubeLink.s ELSE before.youtubeLink
          /\ after.imageUrl = IF req.file # NoFile THEN req.file ELSE before.imageUrl
          /\ after.id = before.id /\ after.createdBy = before.createdBy
          /\ after.comments = before.comments /\ after.rating = before.rating
          /\ after.v = before.v

\* C9: every step of every behaviour is such a step: a successful update
\* changes exactly the fields that are truthy in its request.
C9_UpdateFrame == [][C9_UpdateFrameStep]_vars

\* C9 witness: an update with cookingTime 0 and an empty name succeeded.
C9_Witness ==
  \E p \in Procs :
    /\ Running(p, "update") /\ proc[p].status = 200
    /\ proc[p].req.cookingTime = Num(0) /\ proc[p].req.name = Str(<<>>)

\* C10: a delete of an existing recipe by anyone but its creator or the admin
\* is answered 403, the handler removing nothing and releasing no media; a
\* delete that succeeds was requested by the creator or the admin.
C10_DeleteAuthorized ==
  \A p \in Procs :
    (Running(p, "delete") /\ proc[p].found) =>
      /\ (proc[p].user # proc[p].loaded.createdBy /\ proc[p].user # Admin) =>
            /\ proc[p].pc = "done" /\ proc[p].status = 403
            /\ proc[p].wrote = 0 /\ proc[p].rel = 0
      /\ proc[p].status = 200 =>
            proc[p].user = proc[p].loaded.createdBy \/ proc[p].user = Admin

\* C10 witness: bob's delete of alice's recipe, which has an image, was
\* answered 403 and the recipe is still stored.
C10_Witness ==
  \E p \in Procs :
    /\ Running(p, "delete") /\ proc[p].found /\ proc[p].status = 403
    /\ proc[p].user = "bob" /\ proc[p].loaded.createdBy = "alice"
    /\ proc[p].loaded.imageUrl # <<>> /\ Stored(p)

\* handler p takes this step, running operation op
Acts(p, op) == proc'[p] # proc[p] /\ proc'[p].op = op

\* s is the beginning of t
IsPrefix(s, t) == Len(s) <= Len(t) /\ SubSeq(t, 1, Len(s)) = s

\* every deleteComment handler of a requester who is not the admin has
\* answered 403 and has written nothing
C11_ForbiddenState ==
  \A p \in Procs :
    (Running(p, "deleteComment") /\ proc[p].user # Admin) =>
      proc[p].pc = "done" /\ proc[p].status = 403 /\ proc[p].wrote = 0

\* the step of such a handler leaves the store as it was, and a step after
\* which a stored recipe has lost a comment, or a comment's place changed, is
\* the save of a deleteComment handler of the admin
C11_ForbiddenStep ==
  /\ \A p \in Procs :
       (Acts(p, "deleteComment") /\ proc'[p].user # Admin) => recipes' = recipes
  /\ \A d \in recipes, e \in recipes' :
       (e.id = d.id /\ ~IsPrefix(d.comments, e.comments)) =>
         \E p \in Procs :
           /\ Acts(p, "deleteComment") /\ proc[p].pc = "save"
           /\ proc[p].user = Admin

\* C11: deleteComment by anyone but the admin, the recipe's creator included,
\* is answered 403 and leaves comments and rating as stored; a comment is only
\* ever removed from a recipe by a deleteComment request of the admin.
C11_DeleteCommentForbidden == []C11_ForbiddenState /\ [][C11_ForbiddenStep]_vars

\* C11 witness: alice's deleteComment with a valid index on her own recipe,
\* which has comments, was answered 403.
C11_Witness ==
  \E p \in Procs :
    /\ Running(p, "deleteComment") /\ proc[p].status = 403
    /\ proc[p].user = "alice" /\ proc[p].req.commentIndex = <<"0">>
    /\ \E d \in recipes :
         d.id = castId(parseInt(Str(proc[p].id))) /\ d.createdBy = "alice"
           /\ d.comments # <<>>

\* C12: at the write of a successful update that carries a new image, of a
\* recipe that had a media reference when the handler read it, the stored
\* reference that the write replaces has been released exactly
\* once: by this handler (not zero times), and by no other handler in flight
\* on the same recipe (not twice).
C12_ReleasedOnceStep ==
  \A p \in Procs :
    (Acts(p, "update") /\ proc[p].pc = "write" /\ proc'[p].status = 200
       /\ proc[p].req.file # NoFile /\ proc[p].loaded.imageUrl # <<>>) =>
      LET before == findOne(recipes, castId(parseInt(Str(proc[p].id)))).doc
      IN  before.imageUrl # <<>> =>
            /\ proc[p].rel = 1
            /\ proc[p].loaded.imageUrl = before.imageUrl
            /\ \A q \in Procs \ {p} :
                 ~(proc[q].rel >= 1 /\ proc[q].loaded.id = before.id
                     /\ proc[q].loaded.imageUrl = before.imageUrl)

\* C12: every step of every behaviour, also with two updates of one recipe
\* in flight together, releases each replaced media reference exactly once.
C12_ReleasedExactlyOnce == [][C12_ReleasedOnceStep]_vars

\* C13: a delete by the creator or the admin of a recipe with a media
\* reference, whose release call failed (the handler has answered without a
\* release taken by the media host), has answered 200 after removing the
\* record.
C13_DeleteDespiteReleaseFailure ==
  \A p \in Procs :
    (Running(p, "delete") /\ proc[p].found /\ proc[p].pc = "done"
       /\ (proc[p].user = proc[p].loaded.createdBy \/ proc[p].user = Admin)
       /\ proc[p].loaded.imageUrl # <<>> /\ proc[p].rel = 0) =>
      proc[p].status = 200 /\ proc[p].wrote = 1 /\ ~Stored(p)

\* a body field that is absent or the empty text
Missing(v) == v.t = "undefined" \/ v = Str(<<>>)

\* C14: a create whose name, cuisine, cookingTime or ingredients is missing,
\* or whose ingredients text does not parse to an array, has answered 400 and
\* has stored no recipe.
C14_CreateValidation ==
  \A p \in Procs :
    (Running(p, "create")
       /\ \/ \E f \in {"name", "cuisine", "cookingTime", "ingredients"} :
               Missing(proc[p].req[f])
          \/ JSONparse(proc[p].req.ingredients.s).kind # "array") =>
      proc[p].pc = "done" /\ proc[p].status = 400 /\ proc[p].wrote = 0

\* a step keeps the id and the creator of every stored recipe: a recipe that
\* is stored before the step is stored after it under the same id with the
\* same createdBy, unless the step is the deleteOne of a delete handler; a
\* recipe stored only after the step was inserted by a create handler; and
\* the step of an update handler keeps every recipe's comments and rating
C15_ImmutableStep ==
  /\ \A d \in recipes :
       /\ Matching(recipes', d.id) = {} =>
            \E p \in Procs : Acts(p, "delete") /\ proc[p].pc = "remove"
       /\ \A e \in Matching(recipes', d.id) :
            /\ e.createdBy = d.createdBy
            /\ (\E p \in Procs : Acts(p, "update")) =>
                 e.comments = d.comments /\ e.rating = d.rating
  /\ \A e \in recipes' :
       Matching(recipes, e.id) = {} =>
         \E p \in Procs : Acts(p, "create") /\ proc[p].pc = "save"
  /\ Cardinality(recipes') <= Cardinality(recipes) + 1

\* C15: no step of an update, addComment or deleteComment handler, whoever
\* the requester and whatever the body, changes a stored recipe's id or
\* createdBy, and no update changes its comments or rating.
C15_IdAndCreatorImmutable == [][C15_ImmutableStep]_vars

\* C15 witness: alice's update of recipe 1 succeeded after a comment was added
\* to or removed from it; the recipe is stored under id 1 as alice's.
C15_Witness ==
  \E p \in Procs :
    /\ Running(p, "update") /\ proc[p].status = 200 /\ proc[p].req.name = Str(<<"B">>)
    /\ \E d \in recipes :
         /\ d.id = "1" /\ d.createdBy = "alice" /\ d.name = <<"B">>
         /\ d.v \in {3, SeedLen + 1}

\* the save of a successful addComment puts the request's text and rating
\* behind the comments that are stored, and leaves those as they are
C16_AppendStep ==
  \A p \in Procs :
    (Acts(p, "addComment") /\ proc[p].pc = "save" /\ proc'[p].status = 200) =>
      LET id == castId(parseInt(Str(proc[p].id)))
          before == findOne(recipes, id).doc
          after == findOne(recipes', id).doc
          req == proc[p].req
      IN  /\ findOne(recipes, id).found /\ findOne(recipes', id).found
          /\ Len(after.comments) = Len(before.comments) + 1
          /\ \A k \in 1..Len(before.comments) : after.comments[k] = before.comments[k]
          /\ after.comments[Len(after.comments)] =
               [comment |-> req.comment.s, rating |-> req.rating.n]
          /\ recipes' \ {after} = recipes \ {before}

\* C16: a successful addComment, by the recipe's creator or by anyone else,
\* appends exactly one comment { comment: text, rating: ratingValue } at the
\* end: the sequence grows by one and every comment stored before keeps its
\* content and its position.
C16_AddCommentAppends ==
  [][C16_AppendStep]_vars
    /\ [](\A p \in Procs :
            (Running(p, "addComment") /\ proc[p].status = 200) => proc[p].wrote = 1)

\* C16 witness: bob's comment on alice's recipe, which had comments, was
\* saved.
C16_Witness ==
  \E p \in Procs :
    /\ Running(p, "addComment") /\ proc[p].status = 200 /\ proc[p].user = "bob"
    /\ proc[p].loaded.createdBy = "alice" /\ proc[p].loaded.comments # <<>>
    /\ \E d \in recipes :
         d.id = proc[p].loaded.id /\ Len(d.comments) > Len(proc[p].loaded.comments)

\* the deleteOne of a delete handler that read a media reference comes after
\* the handler's release call for that reference, and issues no release
C17_ReleaseThenRemoveStep ==
  \A p \in Procs :
    (Acts(p, "delete") /\ proc[p].pc = "remove" /\ proc[p].loaded.imageUrl # <<>>) =>
      /\ proc[p].rel = 1
      /\ \E i \in 1..Len(destroyed) : destroyed[i] = publicId(proc[p].loaded.imageUrl)
      /\ destroyed' = destroyed
      /\ Matching(recipes', proc[p].loaded.id) = {}

\* a delete handler that has not issued its release has removed nothing, and
\* one that has answered 200 has issued it and leaves the record absent
C17_ReleaseThenRemoveState ==
  \A p \in Procs :
    (Running(p, "delete") /\ proc[p].found /\ proc[p].loaded.imageUrl # <<>>) =>
      /\ proc[p].rel = 0 => proc[p].wrote = 0
      /\ proc[p].status = 200 => proc[p].rel = 1 /\ proc[p].wrote = 1 /\ ~Stored(p)

\* C17: a successful delete of a recipe with a media reference issues the
\* release of the reference it read first and removes the record afterwards;
\* the handler never removes the record before that release was issued, and
\* at its success response the record is absent from the store.
C17_ReleaseThenRemove ==
  []C17_ReleaseThenRemoveState /\ [][C17_ReleaseThenRemoveStep]_vars

\* C17 witness: alice's delete of her recipe with an image answered 200; the
\* image's release is in the media host's history and the record is gone.
C17_Witness ==
  \E p \in Procs :
    /\ Running(p, "delete") /\ proc[p].status = 200 /\ proc[p].user = "alice"
    /\ proc[p].loaded.imageUrl = Url("img1")
    /\ destroyed = << <<"recipehub", "/", "img1">> >>
    /\ ~Stored(p)

\* a delete handler that has answered 200 leaves no record under its id
C18_DeletedState ==
  \A p \in Procs :
    (Running(p, "delete") /\ proc[p].status = 200) => ~Stored(p)

\* a record that is stored after a step and was not stored before it has an
\* id that was never stored (the step is a create's insert); and the write of
\* an update, addComment or deleteComment handler whose recipe is gone leaves
\* the store as it is and answers 404 or 500
C18_NoReappearStep ==
  /\ \A e \in recipes' :
       Matching(recipes, e.id) = {} =>
         /\ \A i \in 1..Len(inserted) : inserted[i] # e.id
         /\ inserted' = Append(inserted, e.id)
  /\ \A p \in Procs :
       (proc'[p] # proc[p] /\ proc[p].op \in {"update", "addComment", "deleteComment"}
          /\ proc[p].pc \in {"write", "save"}
          /\ Matching(recipes, proc[p].loaded.id) = {}) =>
         recipes' = recipes /\ proc'[p].status \in {404, 500}

\* C18: once a delete of a recipe has reported success the recipe is absent
\* and never stored again: no later step stores a record under an id that was
\* stored before, and an update, addComment or deleteComment handler that read
\* the record before the deletion and writes after it does not re-create it.
C18_NoReappearance == []C18_DeletedState /\ [][C18_NoReappearStep]_vars

\* C18 witness: an update handler read recipe 1, the recipe was deleted, and
\* the handler's write found nothing and was answered 404; the recipe is absent.
C18_Witness ==
  \E p \in Procs :
    /\ Running(p, "update") /\ proc[p].found /\ proc[p].pc = "done"
    /\ proc[p].status = 404 /\ proc[p].wrote = 0
    /\ ~Stored(p)

\* C19: deleteComment checks the requester, then the recipe, then the index:
\* anyone but the admin is answered 403, whatever the recipe and the index;
\* the admin on a recipe that is not stored is answered 404, whatever the
\* index; 400 is only given to the admin on a stored recipe.
C19_CheckOrder ==
  \A p \in Procs :
    Running(p, "deleteComment") =>
      /\ proc[p].user # Admin =>
            proc[p].pc = "done" /\ proc[p].status = 403 /\ ~proc[p].found
      /\ (proc[p].user = Admin /\ ~proc[p].found) =>
            proc[p].pc = "done" /\ proc[p].status = 404 /\ ~Stored(p)
      /\ proc[p].status = 400 =>
            proc[p].user = Admin /\ proc[p].found /\ Stored(p)

\* C19 witness: the admin's deleteComment with index x on recipe 9, which is
\* not stored, was answered 404.
C19_Witness ==
  \E p \in Procs :
    /\ Running(p, "deleteComment") /\ proc[p].user = Admin
    /\ proc[p].id = <<"9">> /\ proc[p].req.commentIndex = <<"x">>
    /\ ~Stored(p) /\ proc[p].status = 404

\* the step of a create handler whose request lacks a required field answers
\* 400 and leaves the counter, the recipes and the histories as they are
C20_RejectStep ==
  \A p \in Procs :
    (Acts(p, "create") /\ proc[p].pc = "idle"
       /\ \E f \in {"name", "cuisine", "cookingTime", "ingredients"} :
            Missing(proc'[p].req[f])) =>
      /\ proc'[p].pc = "done" /\ proc'[p].status = 400 /\ proc'[p].wrote = 0
      /\ UNCHANGED <<counters, recipes, allocated, inserted, destroyed>>

\* the counter stands at the number of ids handed out, and the ids handed
\* out are 1, 2, ... without a gap, whatever was rejected in between
C20_NoGapState ==
  /\ \A i \in 1..Len(counters) : counters[i].seq = Len(allocated)
  /\ \A i \in 1..Len(allocated) : allocated[i] = i
  /\ \A p \in Procs :
       (Running(p, "create") /\ proc[p].status = 400) => proc[p].doc = NoDoc

\* C20: a create rejected for a missing required field does not advance the
\* id counter and adds no recipe, so the next successful create gets the id
\* it would have got without the rejected request.
C20_RejectedCreateNoEffect == []C20_NoGapState /\ [][C20_RejectStep]_vars

\* C20 witness: a create without a name was answered 400 while the counter
\* stands at 1 with one id handed out.
C20_Witness ==
  \E p \in Procs :
    /\ Running(p, "create") /\ proc[p].status = 400
    /\ proc[p].req.name = Undefined
    /\ Len(counters) = 1 /\ counters[1].seq = 1 /\ allocated = <<1>>

====
